---------------------------- MODULE Spec2Model ----------------------------
(***************************************************************************)
(* Model of the hand-teleop client code of the personal-website            *)
(* repository.                                                             *)
(*                                                                         *)
(*  - HandTeleopIntegration (src/docs/frontend-integration-example.tsx):   *)
(*    the streaming client.  React state isConnected / isTracking /        *)
(*    connectionStatus, the refs wsRef and reconnectTimeoutRef, the        *)
(*    browser's WebSocket objects and the pending setTimeout timers.       *)
(*  - HandTeleopWidget (src/app/components/HandTeleopWidget.tsx): the      *)
(*    onResults handler (fingertip mapper) and updateRobotMapping (robot   *)
(*    state projector).                                                    *)
(*                                                                         *)
(* Every handler runs to completion on the single event loop, so each      *)
(* handler is one action.  A handler reads the state of the latest render  *)
(* (unprimed variables) and its setState calls give the primed ones.       *)
(***************************************************************************)
EXTENDS Integers, FiniteSets, Sequences, TLC

VARIABLES
    \* ---- HandTeleopIntegration ----
    isConnected,          \* useState(false)
    isTracking,           \* useState(false)
    connectionStatus,     \* useState('disconnected')
    wsRef,                \* useRef<WebSocket|null>: a socket id or Null
    reconnectTimeoutRef,  \* useRef<Timeout|null>: a timer id or Null
    sockState,            \* per WebSocket object: its readyState / event phase
    timers,               \* ids of the setTimeout callbacks still pending
    mounted,              \* the component is mounted
    lastOp,               \* the handler that ran last (observation only)
    lastSent,             \* what that handler sent on the socket, or "none"
    explicitDisconnect,   \* disconnectWebSocket ran and the user has not asked
                          \* for a connection since (observation only)
    trackingData,         \* useState<TrackingData|null>
    received,             \* the event.data the last handler was called with,
                          \* or NoMessage (observation only)
    \* ---- HandTeleopWidget: extractor -> mapper -> projector ----
    videoSize,            \* <<videoWidth, videoHeight>> of the <video> element
    handlerIsTracking,    \* the isTracking the registered onResults closed over
    results,              \* the extractor result handed to onResults last
    fingertips,           \* useState<FingertipData>
    robotMapping,         \* useState<RobotMapping>
    fps,                  \* useState(0)
    frameCountRef,        \* useRef(0): results counted since the last fps value
    sinceLastTime,        \* ms from lastTimeRef.current to the last handler run
    \* ---- HandTeleopWidget: life cycle ----
    widgetIsTracking,     \* useState(false)
    isLoading,            \* useState(false)
    status,               \* useState('Ready to start tracking')
    scripts,              \* the MediaPipe scripts: "loading", "loaded" or "failed"
    camera,               \* cameraRef.current: "none", or the Camera object
                          \* "starting", "running" or "idle"
    widgetMounted,        \* the widget is mounted
    framesDelivered,      \* calls of onFrame by the camera so far
    framesSent,           \* calls of hands.send so far
    startFailed,          \* the last startTracking failed and none has
                          \* succeeded since (observation only)
    widgetLastOp,         \* the handler that ran last (observation only)
    \* ---- HandTeleopProject (project page, latest version) ----
    pageIsConnected,      \* useState(false): isConnected
    isCameraActive,       \* useState(false)
    pageIsTracking,       \* useState(false): isTracking
    consoleLogs,          \* useState<string[]>([]), newest first
    fingertipData,        \* useState<FingertipData>
    robotState,           \* useState<RobotState>
    streamRef,            \* useRef<MediaStream|null>: "null" or "live"
    animationRef,         \* useRef<number>(): Null or the last handle
    rafPending,           \* a requestAnimationFrame callback is scheduled
    cameraRequests,       \* getUserMedia calls not yet answered
    autoTimers,           \* auto-start timers of startCamera still pending
    trackRequests,        \* POST /track requests not yet answered
    requestSawConnected,  \* the isConnected the requests' closure holds
    connectPending,       \* connectToRobot calls awaiting their response
    polling,              \* the intervals of startRobotStatusPolling that exist
    clock,                \* Date.now(), counted in handled responses
    pageMounted,          \* the page is mounted
    pageLastOp,           \* the handler that ran last (observation only)
    \* ---- HandTeleopApiDemo: its request/response operations ----
    demoIsConnected,      \* useState(false): isConnected
    demoIsLoading,        \* useState(false): isLoading
    robots,               \* useState<Robot[]>([]): the ids of the listed robots
    selectedRobot,        \* useState('so101')
    robotData,            \* useState<RobotData|null>(null)
    apiHealth,            \* useState<ApiHealth|null>(null)
    healthPending,        \* GET /api/health requests not yet answered
    robotsPending,        \* GET /api/robots requests not yet answered
    configurePending,     \* robot ids of the POST /api/config/robot requests
                          \* not yet answered
    trackPending,         \* POST /api/track requests not yet answered
    demoLastOp,           \* the handler that ran last (observation only)
    \* ---- HandTeleopApiDemo: its WebSocket ----
    ws,                   \* useState<WebSocket|null>(null): a socket id or Null
    demoSockState,        \* readyState of each WebSocket the demo created
    \* ---- Navbar ----
    active,               \* useState("home"): the id of the highlighted section
    dark,                 \* useState(false)
    rootDark,             \* document.documentElement carries the class "dark"
    scrollY,              \* the scroll position of the window
    hasSections,          \* the page shown has the five sections
    rootHistory           \* rootDark at page load and after each toggleDark
                          \* (observation only)

wsVars == <<isConnected, isTracking, connectionStatus, wsRef, reconnectTimeoutRef,
            sockState, timers, mounted, lastOp, lastSent, explicitDisconnect>>
dataVars == <<trackingData, received>>
widgetVars == <<videoSize, handlerIsTracking, results, fingertips, robotMapping,
                fps, frameCountRef, sinceLastTime>>
lifeVars == <<widgetIsTracking, isLoading, status, scripts, camera, widgetMounted,
              framesDelivered, framesSent, startFailed, widgetLastOp>>
pageVars == <<pageIsConnected, isCameraActive, pageIsTracking, consoleLogs,
              fingertipData, robotState, streamRef, animationRef, rafPending,
              cameraRequests, autoTimers, trackRequests, requestSawConnected,
              connectPending, polling, clock, pageMounted, pageLastOp>>
demoVars == <<demoIsConnected, demoIsLoading, robots, selectedRobot, robotData,
              apiHealth, healthPending, robotsPending, configurePending,
              trackPending, demoLastOp>>
demoWsVars == <<ws, demoSockState>>
navVars == <<active, dark, rootDark, scrollY, hasSections, rootHistory>>
vars == <<wsVars, dataVars, widgetVars, lifeVars, pageVars, demoVars, demoWsVars, navVars>>
\* What the handlers of the streaming client other than onmessage leave alone.
outsideWS == <<trackingData, widgetVars, lifeVars, pageVars, demoVars, demoWsVars,
               navVars>>
\* What the pipeline of the widget, run by itself, leaves alone.
outsideWidget == <<wsVars, dataVars, lifeVars, pageVars, demoVars, demoWsVars, navVars>>
\* What the widget leaves alone.
outsideLife == <<wsVars, dataVars, pageVars, demoVars, demoWsVars, navVars>>
\* What the project page leaves alone.
outsidePage == <<wsVars, dataVars, widgetVars, lifeVars, demoVars, demoWsVars, navVars>>
\* What the API demo leaves alone.
outsideDemo == <<wsVars, dataVars, widgetVars, lifeVars, pageVars, navVars>>
\* What the navigation bar leaves alone.
outsideNav == <<wsVars, dataVars, widgetVars, lifeVars, pageVars, demoVars, demoWsVars>>

\* null of a ref (socket and timer ids start at 1)
Null == 0

(***************************************************************************)
(* Bounds of the model.                                                    *)
(***************************************************************************)
\* Sockets with an event still to come plus pending reconnect timers that the
\* user's Connect clicks may pile up.
MaxInFlight == 3
\* Resolution of the landmark coordinates: a normalized coordinate is n / One
\* with One = 2 * Half, so 0.5 is Half and a 640-wide frame has pixels n*640/One.
Half == 10
One == 2 * Half

Sockets == 1..(MaxInFlight + 1)   \* WebSocket objects (ids are reused once dead)
TimerIds == 1..MaxInFlight        \* setTimeout handles (reused once fired/cleared)

(***************************************************************************)
(* The browser's WebSocket objects.  readyState is CONNECTING, OPEN,       *)
(* CLOSING or CLOSED; the model splits CLOSED by what is still to come:    *)
(*   "ERRORED"  the connection failed, the error event has been fired and  *)
(*              the close event follows in the same task;                  *)
(*   "CLOSED"   the close event has been delivered and wsRef still holds   *)
(*              the object;                                                *)
(*   "free"     no object (never created, or closed and unreferenced).     *)
(***************************************************************************)
ReadyStates == {"free", "CONNECTING", "OPEN", "CLOSING", "ERRORED", "CLOSED"}
Live(ss) == {s \in Sockets : ss[s] \in {"CONNECTING", "OPEN", "CLOSING", "ERRORED"}}
NewSocket == CHOOSE s \in Sockets :
                 /\ sockState[s] = "free"
                 /\ \A u \in Sockets : sockState[u] = "free" => s <= u
NewTimer == CHOOSE t \in TimerIds :
                /\ t \notin timers
                /\ \A u \in TimerIds : u \notin timers => t <= u
\* The error event and the close event of a failed connection are fired in one
\* task: nothing else runs between the two handlers.
NoTask == \A s \in Sockets : sockState[s] # "ERRORED"
\* The object wsRef pointed at loses its last reference.
Dropped(ss, old) ==
    IF old # Null /\ ss[old] = "CLOSED" THEN [ss EXCEPT ![old] = "free"] ELSE ss
\* WebSocket.close(): CONNECTING and OPEN go to CLOSING, the close event comes later.
Closed(ss, s) ==
    IF ss[s] \in {"CONNECTING", "OPEN"} THEN [ss EXCEPT ![s] = "CLOSING"] ELSE ss

(***************************************************************************)
(* Messages of the channel.  event.data is a text; JSON.parse either        *)
(* yields an object with a type and a data field or throws.                *)
(***************************************************************************)
NoData == "null"                              \* useState<TrackingData|null>(null)
TrackingResults == {"resultA", "resultB"}     \* data of a tracking_result
MessageTypes == {"config", "tracking_result", "config_update", "pong", "other"}
Texts ==
    {[json |-> TRUE, type |-> "tracking_result", data |-> d] : d \in TrackingResults}
        \cup {[json |-> TRUE, type |-> t, data |-> "payload"] :
                  t \in MessageTypes \ {"tracking_result"}}
        \cup {[json |-> FALSE, type |-> "garbage", data |-> NoData]}
\* no message event is being handled
NoMessage == [json |-> FALSE, type |-> "none", data |-> NoData]

(***************************************************************************)
(* connectWebSocket (lines 106-157).  `new WebSocket` of the fixed,        *)
(* well-formed URL does not throw, so the catch block is not taken.        *)
(* The four handlers are installed on the new object; they are the bodies  *)
(* onopen, onclose and onerror below.                                      *)
(***************************************************************************)
AlreadyOpen == wsRef # Null /\ sockState[wsRef] = "OPEN"

\* (variant: the attempt is shown as a state of its own)
connectWebSocket_setsConnecting ==
    /\ IF AlreadyOpen
       THEN UNCHANGED <<wsRef, sockState>>
       ELSE LET s == NewSocket IN
            /\ wsRef' = s
            /\ sockState' = [Dropped(sockState, wsRef) EXCEPT ![s] = "CONNECTING"]
    /\ connectionStatus' = IF AlreadyOpen THEN connectionStatus ELSE "connecting"
    /\ UNCHANGED <<isConnected, isTracking>>

connectWebSocket ==
    /\ IF AlreadyOpen
       THEN UNCHANGED <<wsRef, sockState>>
       ELSE LET s == NewSocket IN
            /\ wsRef' = s
            /\ sockState' = [Dropped(sockState, wsRef) EXCEPT ![s] = "CONNECTING"]
    /\ UNCHANGED <<isConnected, isTracking, connectionStatus>>

\* wsRef.current.onopen (lines 114-124)
onopen ==
    /\ isConnected' = TRUE
    /\ connectionStatus' = "connected"
    /\ IF reconnectTimeoutRef # Null
       THEN /\ timers' = timers \ {reconnectTimeoutRef}
            /\ reconnectTimeoutRef' = Null
       ELSE UNCHANGED <<timers, reconnectTimeoutRef>>
    /\ UNCHANGED isTracking

\* (variant: no reconnect is scheduled)
onclose_noReconnect ==
    /\ isConnected' = FALSE
    /\ isTracking' = FALSE
    /\ connectionStatus' = "disconnected"
    /\ UNCHANGED <<reconnectTimeoutRef, timers>>

\* (variant: the tracking flag survives the close)
onclose_keepsTracking ==
    /\ isConnected' = FALSE
    /\ connectionStatus' = "disconnected"
    /\ reconnectTimeoutRef' = NewTimer
    /\ timers' = timers \cup {NewTimer}
    /\ UNCHANGED isTracking

\* wsRef.current.onclose (lines 135-146)
onclose ==
    /\ isConnected' = FALSE
    /\ isTracking' = FALSE
    /\ connectionStatus' = "disconnected"
    /\ reconnectTimeoutRef' = NewTimer
    /\ timers' = timers \cup {NewTimer}

\* wsRef.current.onerror (lines 148-151)
onerror ==
    /\ connectionStatus' = "error"
    /\ UNCHANGED <<isConnected, isTracking, reconnectTimeoutRef, timers>>

\* disconnectWebSocket (lines 159-169)
disconnectWebSocket ==
    /\ IF wsRef # Null
       THEN /\ sockState' = Dropped(Closed(sockState, wsRef), wsRef)
            /\ wsRef' = Null
       ELSE UNCHANGED <<sockState, wsRef>>
    /\ IF reconnectTimeoutRef # Null
       THEN /\ timers' = timers \ {reconnectTimeoutRef}
            /\ reconnectTimeoutRef' = Null
       ELSE UNCHANGED <<timers, reconnectTimeoutRef>>

\* wsRef.current?.readyState === WebSocket.OPEN, then send(type)
Send(type) == IF AlreadyOpen THEN type ELSE "none"

\* startTracking (lines 196-212)
startTracking ==
    IF ~isConnected
    THEN /\ connectWebSocket
         /\ lastSent' = "none"
    ELSE /\ isTracking' = TRUE
         /\ connectionStatus' = "tracking"
         /\ lastSent' = Send("start_tracking")
         /\ UNCHANGED <<isConnected, wsRef, sockState>>

\* stopTracking (lines 214-224)
stopTracking ==
    /\ isTracking' = FALSE
    /\ connectionStatus' = "connected"
    /\ lastSent' = Send("stop_tracking")
    /\ UNCHANGED <<isConnected, wsRef, sockState>>

(***************************************************************************)
(* The events of the streaming client.                                     *)
(***************************************************************************)
\* "Connect to API" button, rendered while !isConnected (lines 303-309).
ClickConnect ==
    /\ UNCHANGED outsideWS /\ received' = NoMessage
    /\ mounted /\ NoTask /\ ~isConnected
    /\ Cardinality(Live(sockState)) + Cardinality(timers) < MaxInFlight
    /\ connectWebSocket
    /\ lastOp' = IF AlreadyOpen THEN "connect_noop" ELSE "connect"
    /\ lastSent' = "none"
    /\ explicitDisconnect' = FALSE
    /\ UNCHANGED <<reconnectTimeoutRef, timers, mounted>>

\* "Start Tracking" button, rendered while isConnected && !isTracking (310-316).
ClickStartTracking ==
    /\ UNCHANGED outsideWS /\ received' = NoMessage
    /\ mounted /\ NoTask /\ isConnected /\ ~isTracking
    /\ startTracking
    /\ lastOp' = "start"
    /\ UNCHANGED <<reconnectTimeoutRef, timers, mounted, explicitDisconnect>>

\* "Stop Tracking" button, rendered while isConnected && isTracking (317-324).
ClickStopTracking ==
    /\ UNCHANGED outsideWS /\ received' = NoMessage
    /\ mounted /\ NoTask /\ isConnected /\ isTracking
    /\ stopTracking
    /\ lastOp' = "stop"
    /\ UNCHANGED <<reconnectTimeoutRef, timers, mounted, explicitDisconnect>>

\* "Disconnect" button, always rendered (lines 326-331).
ClickDisconnect ==
    /\ UNCHANGED outsideWS /\ received' = NoMessage
    /\ mounted /\ NoTask
    /\ disconnectWebSocket
    /\ lastOp' = "disconnect"
    /\ lastSent' = "none"
    /\ explicitDisconnect' = TRUE
    /\ UNCHANGED <<isConnected, isTracking, connectionStatus, mounted>>

\* Cleanup of the mount effect (lines 245-248).  The handlers of the sockets
\* and the timers outlive the component; the values their setState calls pass
\* are still recorded in the state variables, which nothing renders any more.
Unmount ==
    /\ UNCHANGED outsideWS /\ received' = NoMessage
    /\ mounted /\ NoTask
    /\ mounted' = FALSE
    /\ disconnectWebSocket
    /\ lastOp' = "unmount"
    /\ lastSent' = "none"
    /\ explicitDisconnect' = TRUE
    /\ UNCHANGED <<isConnected, isTracking, connectionStatus>>

\* The reconnect timer set by onclose fires (lines 142-145).  The handle stays
\* in reconnectTimeoutRef: the callback does not reset it.
TimerFires(t) ==
    /\ UNCHANGED outsideWS /\ received' = NoMessage
    /\ NoTask /\ t \in timers
    /\ timers' = timers \ {t}
    /\ connectWebSocket
    /\ lastOp' = IF AlreadyOpen THEN "reconnect_noop" ELSE "reconnect"
    /\ lastSent' = "none"
    /\ UNCHANGED <<reconnectTimeoutRef, mounted, explicitDisconnect>>

\* The connection of socket s is established: readyState OPEN, open event.
OpenEvent(s) ==
    /\ UNCHANGED outsideWS /\ received' = NoMessage
    /\ NoTask /\ sockState[s] = "CONNECTING"
    /\ sockState' = [sockState EXCEPT ![s] = "OPEN"]
    /\ onopen
    /\ lastOp' = "open"
    /\ lastSent' = "none"
    /\ UNCHANGED <<wsRef, mounted, explicitDisconnect>>

\* The connection of socket s fails (refused, lost, or closed while connecting):
\* readyState CLOSED, error event; the close event follows at once.
ErrorEvent(s) ==
    /\ UNCHANGED outsideWS /\ received' = NoMessage
    /\ NoTask /\ sockState[s] \in {"CONNECTING", "OPEN", "CLOSING"}
    /\ sockState' = [sockState EXCEPT ![s] = "ERRORED"]
    /\ onerror
    /\ lastOp' = "error"
    /\ lastSent' = "none"
    /\ UNCHANGED <<wsRef, mounted, explicitDisconnect>>

\* The close event of socket s: after its error event, after the closing
\* handshake that close() started, or when the server closes an open socket.
CloseEvent(s) ==
    /\ UNCHANGED outsideWS /\ received' = NoMessage
    /\ sockState[s] \in (IF NoTask THEN {"OPEN", "CLOSING"} ELSE {"ERRORED"})
    /\ sockState' = [sockState EXCEPT ![s] = IF wsRef = s THEN "CLOSED" ELSE "free"]
    /\ onclose
    /\ lastOp' = "close"
    /\ lastSent' = "none"
    /\ UNCHANGED <<wsRef, mounted, explicitDisconnect>>

\* handleWebSocketMessage (lines 172-193): the trackingData state after the call
\* (variant: a pong clears the displayed data)
handleWebSocketMessage_pongClears(message) ==
    IF message.type = "tracking_result" THEN message.data
    ELSE IF message.type = "pong" THEN NoData
    ELSE trackingData
handleWebSocketMessage(message) ==
    IF message.type = "tracking_result" THEN message.data ELSE trackingData

\* wsRef.current.onmessage (lines 126-133): JSON.parse in a try block, the
\* catch only logs.
onmessage(text) ==
    IF text.json THEN handleWebSocketMessage(text) ELSE trackingData

\* A message event on socket s (delivered only while its readyState is OPEN).
MessageEvent(s, text) ==
    /\ UNCHANGED <<widgetVars, lifeVars, pageVars, demoVars, demoWsVars, navVars>>
    /\ NoTask /\ sockState[s] = "OPEN"
    /\ received' = text
    /\ trackingData' = onmessage(text)
    /\ lastOp' = "message"
    /\ lastSent' = "none"
    /\ UNCHANGED <<isConnected, isTracking, connectionStatus, wsRef,
                   reconnectTimeoutRef, sockState, timers, mounted, explicitDisconnect>>

\* The keep-alive effect (lines 251-262): its interval exists from the render
\* that shows isConnected until the next render without it or the unmount.
pingInterval == mounted /\ isConnected

\* A tick of the keep-alive interval (lines 255-259).
PingTick ==
    /\ UNCHANGED outsideWS /\ received' = NoMessage
    /\ NoTask /\ pingInterval
    /\ lastOp' = "ping"
    /\ lastSent' = Send("ping")
    /\ UNCHANGED <<isConnected, isTracking, connectionStatus, wsRef,
                   reconnectTimeoutRef, sockState, timers, mounted, explicitDisconnect>>

InitWS ==
    /\ isConnected = FALSE
    /\ isTracking = FALSE
    /\ connectionStatus = "disconnected"
    /\ wsRef = Null
    /\ reconnectTimeoutRef = Null
    /\ sockState = [s \in Sockets |-> "free"]
    /\ timers = {}
    /\ mounted = TRUE
    /\ lastOp = "init"
    /\ lastSent = "none"
    /\ explicitDisconnect = FALSE
    /\ trackingData = NoData
    /\ received = NoMessage


(***************************************************************************)
(* HandTeleopWidget: onResults and updateRobotMapping.                     *)
(*                                                                         *)
(* Numbers are exact fractions with denominator One: a landmark coordinate *)
(* or depth v is held as v*One, a pixel coordinate p as p*One, a robot     *)
(* coordinate r as r*One.                                                  *)
(***************************************************************************)
DefaultWidth == 640       \* videoWidth || 640
DefaultHeight == 480      \* videoHeight || 480
GripperThreshold == 50    \* distance < 50

\* canvas.width / canvas.height (lines 125-126)
CanvasWidth(vs) == IF vs[1] # 0 THEN vs[1] ELSE DefaultWidth
CanvasHeight(vs) == IF vs[2] # 0 THEN vs[2] ELSE DefaultHeight

Max(a, b) == IF a >= b THEN a ELSE b
Pow2(a) == a * a
\* Math.sqrt, rounded down: the largest r with r*r <= n.  For an integer c,
\* sqrt(n) < c exactly when ISqrt(n) < c.
RECURSIVE ISqrtIn(_, _, _)
ISqrtIn(n, lo, hi) ==
    IF hi - lo <= 1 THEN lo
    ELSE LET mid == (lo + hi) \div 2 IN
         IF mid * mid <= n THEN ISqrtIn(n, mid, hi) ELSE ISqrtIn(n, lo, mid)
ISqrt(n) == ISqrtIn(n, 0, 46341)

\* A landmark scaled to pixels (lines 144-146).
ToPixel(p, w, h) == [present |-> TRUE, x |-> p.x * w, y |-> p.y * h, z |-> p.z]

\* x of the robot mapping (line 199): ((indexTip.x / width) - 0.5) * 2
RobotX(px, width) == ((px \div width) - Half) * 2

\* y of the robot mapping (line 200): ((indexTip.y / height) - 0.5) * -2
\* (variant: the axis is not inverted)
RobotY_notInverted(py, height) == ((py \div height) - Half) * 2
RobotY(py, height) == ((py \div height) - Half) * (-2)

\* z of the robot mapping (line 201): Math.max(0, indexTip.z * 2)
RobotZ(z) == Max(0, z * 2)

\* Math.sqrt(dx^2 + dy^2) of thumb and indexTip, in pixels (lines 204-207)
Distance(thumb, indexTip) ==
    ISqrt(Pow2(thumb.x - indexTip.x) + Pow2(thumb.y - indexTip.y))

\* gripper (line 208): distance < 50 ? 'Closed' : 'Open'
\* (variant: the threshold itself closes the gripper)
Gripper_inclusive(distance) ==
    IF distance <= GripperThreshold * One THEN "Closed" ELSE "Open"
Gripper(distance) ==
    IF distance < GripperThreshold * One THEN "Closed" ELSE "Open"

\* updateRobotMapping (lines 195-211): the robotMapping state after the call.
updateRobotMapping(prev, data, width, height) ==
    IF ~data.thumb.present \/ ~data.indexTip.present
    THEN prev
    ELSE [x |-> RobotX(data.indexTip.x, width),
          y |-> RobotY(data.indexTip.y, height),
          z |-> RobotZ(data.indexTip.z),
          gripper |-> Gripper(Distance(data.thumb, data.indexTip))]

\* The three fingertips of a landmark set (lines 135-147).
Extract(landmarks, w, h) ==
    [thumb |-> ToPixel(landmarks[4], w, h),
     indexPip |-> ToPixel(landmarks[6], w, h),
     indexTip |-> ToPixel(landmarks[8], w, h)]

\* A fingertip that is null.
Absent == [present |-> FALSE, x |-> 0, y |-> 0, z |-> 0]
NoFingertips == [thumb |-> Absent, indexPip |-> Absent, indexTip |-> Absent]
Neutral == [x |-> 0, y |-> 0, z |-> 0, gripper |-> "Open"]

\* onResults (lines 117-158): the fingertips and robotMapping state after the
\* call.  `tracking` is the isTracking of the render whose onResults was
\* registered with the extractor; the canvas is always rendered.
onResults(tracking, vs, st, res) ==
    IF ~tracking
    THEN st
    ELSE LET w == CanvasWidth(vs)
             h == CanvasHeight(vs)
         IN  IF Len(res.multiHandLandmarks) > 0
             THEN LET newFingertips == Extract(res.multiHandLandmarks[1], w, h) IN
                  [fingertips |-> newFingertips,
                   robotMapping |-> updateRobotMapping(st.robotMapping, newFingertips, w, h)]
             ELSE [fingertips |-> NoFingertips, robotMapping |-> st.robotMapping]

\* Math.round of the non-negative fraction n / d
Round(n, d) == (2 * n + d) \div (2 * d)
\* Time between two results of the extractor, in ms.
FrameGaps == {500, 1000}

\* updateFPS (lines 213-222), called gap ms after the handler run before it:
\* the fps, frameCountRef and lastTimeRef after the call
updateFPS(gap) ==
    LET count == frameCountRef + 1
        elapsed == sinceLastTime + gap
    IN  IF elapsed >= 1000
        THEN [fps |-> Round(count * 1000, elapsed), frameCountRef |-> 0, sinceLastTime |-> 0]
        ELSE [fps |-> fps, frameCountRef |-> count, sinceLastTime |-> elapsed]

\* The last statement of onResults (line 157), reached when the handler's
\* isTracking is true.
countFrame(tracking) ==
    IF tracking
    THEN \E gap \in FrameGaps :
            LET st == updateFPS(gap) IN
                /\ fps' = st.fps
                /\ frameCountRef' = st.frameCountRef
                /\ sinceLastTime' = st.sinceLastTime
    ELSE UNCHANGED <<fps, frameCountRef, sinceLastTime>>

(***************************************************************************)
(* Inputs of the pipeline: what the extractor may report.                  *)
(***************************************************************************)
VideoSizes == {<<0, 0>>, <<800, 600>>, <<1280, 720>>}
CoordSet == {0, One \div 5, Half, Half + 1, One}
DepthSet == {0 - Half, 0, Half, One + Half}
ThumbSet == {[x |-> Half, y |-> Half, z |-> 0], [x |-> Half + 1, y |-> Half + 2, z |-> 0]}
IndexTipSet == {[x |-> a, y |-> b, z |-> d] : a \in CoordSet, b \in CoordSet, d \in DepthSet}
\* A hand of 21 landmarks with the given thumb tip (4), index PIP (6) and index
\* tip (8); the other joints lie elsewhere.
Hand(t, p, i) ==
    [k \in 0..20 |->
        IF k = 4 THEN t ELSE IF k = 6 THEN p ELSE IF k = 8 THEN i
        ELSE [x |-> k % (One + 1), y |-> (3 * k + 1) % (One + 1), z |-> 0]]
HandResults ==
    {[multiHandLandmarks |-> <<Hand(t, [x |-> Half, y |-> Half - 4, z |-> 0], i)>>] :
        t \in ThumbSet, i \in IndexTipSet}
NoHandResult == [multiHandLandmarks |-> <<>>]

\* The extractor delivers a result to the registered onResults.
ResultsArrive(res) ==
    /\ results' = res
    /\ LET st == onResults(handlerIsTracking, videoSize,
                           [fingertips |-> fingertips, robotMapping |-> robotMapping], res)
       IN  /\ fingertips' = st.fingertips
           /\ robotMapping' = st.robotMapping
    /\ countFrame(handlerIsTracking)
    /\ UNCHANGED <<videoSize, handlerIsTracking>>
    /\ UNCHANGED outsideWidget

HandDetected == \E res \in HandResults : ResultsArrive(res)
NoHandDetected == ResultsArrive(NoHandResult)

InitWidget ==
    /\ videoSize = <<0, 0>>
    /\ handlerIsTracking = FALSE
    /\ results = NoHandResult
    /\ fingertips = NoFingertips
    /\ robotMapping = Neutral
    /\ fps = 0 /\ frameCountRef = 0 /\ sinceLastTime = 0

(***************************************************************************)
(* HandTeleopWidget: its life cycle.  startTracking is an async function:  *)
(* it runs up to `await cameraRef.current?.start()` in the click's task     *)
(* (a throw of initializeMediaPipe is caught in the same task) and resumes  *)
(* when the camera has started or the start has been rejected.              *)
(***************************************************************************)
Ready == "Ready to start tracking"
Initializing == "Initializing hand tracking..."
Active == "Hand tracking active"
StartFailed == "Failed to start camera or MediaPipe"
Stopped == "Tracking stopped"
LoadFailed == "Failed to load MediaPipe dependencies"

\* Frames the camera may deliver in one run of the model.
MaxFrames == 3
\* What the extractor may report for a frame.
FrameResults ==
    {NoHandResult,
     [multiHandLandmarks |->
          <<Hand([x |-> Half, y |-> Half, z |-> 0], [x |-> Half, y |-> Half - 4, z |-> 0],
                 [x |-> Half + 1, y |-> One \div 5, z |-> 0])>>]}

\* The isTracking of the first render, which the unmount effect's cleanup
\* closes over (useEffect with [] runs once, lines 270-276).
MountIsTracking == FALSE

\* initializeMediaPipe (lines 82-115) returns: onResults and onFrame of the
\* calling render are registered, a new Camera is in cameraRef; then
\* startTracking awaits the camera's start (lines 233-238).
startTrackingBegins ==
    /\ isLoading' = TRUE
    /\ status' = Initializing
    /\ handlerIsTracking' = widgetIsTracking
    /\ camera' = "starting"
    /\ UNCHANGED <<widgetIsTracking, startFailed>>

\* startTracking after the camera has started (lines 240-243, 248-250)
\* (variant: without the finally block)
startTrackingSucceeds_staysLoading ==
    /\ widgetIsTracking' = TRUE
    /\ status' = Active
    /\ frameCountRef' = 0
    /\ sinceLastTime' = 0
    /\ isLoading' = TRUE
    /\ startFailed' = FALSE
startTrackingSucceeds ==
    /\ widgetIsTracking' = TRUE
    /\ status' = Active
    /\ frameCountRef' = 0
    /\ sinceLastTime' = 0
    /\ isLoading' = FALSE
    /\ startFailed' = FALSE

\* startTracking's catch and finally (lines 245-250)
\* (variant: the loading flag is not cleared)
startTrackingFails_staysLoading ==
    /\ status' = StartFailed
    /\ isLoading' = TRUE
    /\ startFailed' = TRUE
    /\ UNCHANGED widgetIsTracking
startTrackingFails ==
    /\ status' = StartFailed
    /\ isLoading' = FALSE
    /\ startFailed' = TRUE
    /\ UNCHANGED widgetIsTracking

\* stopTracking of the widget (lines 253-267)
\* (variant: the mapping is reset with the gripper closed)
widgetStopTracking_closedGripper ==
    /\ widgetIsTracking' = FALSE
    /\ camera' = IF camera = "running" THEN "idle" ELSE camera
    /\ fingertips' = NoFingertips
    /\ robotMapping' = [Neutral EXCEPT !.gripper = "Closed"]
    /\ fps' = 0
    /\ status' = Stopped
widgetStopTracking ==
    /\ widgetIsTracking' = FALSE
    /\ camera' = IF camera = "running" THEN "idle" ELSE camera
    /\ fingertips' = NoFingertips
    /\ robotMapping' = Neutral
    /\ fps' = 0
    /\ status' = Stopped

\* onFrame of the Camera (lines 106-110) with the extractor's answer: send
\* resolves after the extractor has called the registered onResults.
onFrame(res) ==
    IF handlerIsTracking
    THEN /\ framesSent' = framesSent + 1
         /\ results' = res
         /\ LET st == onResults(handlerIsTracking, videoSize,
                                [fingertips |-> fingertips, robotMapping |-> robotMapping], res)
            IN  /\ fingertips' = st.fingertips
                /\ robotMapping' = st.robotMapping
         /\ countFrame(handlerIsTracking)
    ELSE UNCHANGED <<framesSent, results, fingertips, robotMapping,
                     fps, frameCountRef, sinceLastTime>>

\* The script loader's promise resolves (lines 66-71): window.Hands and
\* window.Camera exist from now on.
ScriptsLoaded ==
    /\ UNCHANGED outsideLife
    /\ scripts = "loading"
    /\ scripts' = "loaded"
    /\ widgetLastOp' = "scripts_loaded"
    /\ UNCHANGED <<widgetVars, widgetIsTracking, isLoading, status, camera,
                   widgetMounted, framesDelivered, framesSent, startFailed>>

\* A script fails to load (lines 72-75).
ScriptsFail ==
    /\ UNCHANGED outsideLife
    /\ scripts = "loading"
    /\ scripts' = "failed"
    /\ status' = LoadFailed
    /\ widgetLastOp' = "scripts_failed"
    /\ UNCHANGED <<widgetVars, widgetIsTracking, isLoading, camera,
                   widgetMounted, framesDelivered, framesSent, startFailed>>

\* The toggle button (lines 302-304, enabled while !isLoading) in a render
\* with !isTracking: toggleTracking calls startTracking.
ClickStart ==
    /\ UNCHANGED outsideLife
    /\ widgetMounted /\ ~isLoading /\ ~widgetIsTracking
    /\ IF scripts = "loaded"
       THEN /\ startTrackingBegins
            /\ widgetLastOp' = "start"
       ELSE /\ startTrackingFails
            /\ widgetLastOp' = "start_failed"
            /\ UNCHANGED <<handlerIsTracking, camera>>
    /\ UNCHANGED <<videoSize, results, fingertips, robotMapping, fps, frameCountRef,
                   sinceLastTime, scripts, widgetMounted, framesDelivered, framesSent>>

\* camera.start() resolves: the user granted the camera and the <video>
\* element plays its stream, of whatever size the device gives.
CameraStarts ==
    /\ UNCHANGED outsideLife
    /\ camera = "starting"
    /\ camera' = "running"
    /\ videoSize' \in VideoSizes \ {<<0, 0>>}
    /\ startTrackingSucceeds
    /\ widgetLastOp' = "start_ok"
    /\ UNCHANGED <<handlerIsTracking, results, fingertips, robotMapping, fps, scripts,
                   widgetMounted, framesDelivered, framesSent>>

\* camera.start() rejects: the camera is denied or missing.
CameraRejects ==
    /\ UNCHANGED outsideLife
    /\ camera = "starting"
    /\ camera' = "idle"
    /\ startTrackingFails
    /\ widgetLastOp' = "start_failed"
    /\ UNCHANGED <<widgetVars, scripts, widgetMounted, framesDelivered, framesSent>>

\* The toggle button in a render with isTracking: toggleTracking calls
\* stopTracking.
ClickStop ==
    /\ UNCHANGED outsideLife
    /\ widgetMounted /\ ~isLoading /\ widgetIsTracking
    /\ widgetStopTracking
    /\ widgetLastOp' = "stop"
    /\ UNCHANGED <<videoSize, handlerIsTracking, results, frameCountRef, sinceLastTime,
                   isLoading, scripts, widgetMounted, framesDelivered, framesSent,
                   startFailed>>

\* The running camera delivers a frame.
CameraFrame ==
    /\ UNCHANGED outsideLife
    /\ camera = "running" /\ framesDelivered < MaxFrames
    /\ framesDelivered' = framesDelivered + 1
    /\ \E res \in FrameResults : onFrame(res)
    /\ widgetLastOp' = "frame"
    /\ UNCHANGED <<videoSize, handlerIsTracking, widgetIsTracking, isLoading, status,
                   scripts, camera, widgetMounted, startFailed>>

\* The widget is unmounted: the cleanup of lines 270-276 runs.
WidgetUnmount ==
    /\ UNCHANGED outsideLife
    /\ widgetMounted
    /\ widgetMounted' = FALSE
    /\ IF MountIsTracking
       THEN widgetStopTracking
       ELSE UNCHANGED <<widgetIsTracking, camera, fingertips, robotMapping, fps, status>>
    /\ widgetLastOp' = "unmount"
    /\ UNCHANGED <<videoSize, handlerIsTracking, results, frameCountRef, sinceLastTime,
                   isLoading, scripts, framesDelivered, framesSent, startFailed>>

InitLife ==
    /\ widgetIsTracking = FALSE
    /\ isLoading = FALSE
    /\ status = Ready
    /\ scripts = "loading"
    /\ camera = "none"
    /\ widgetMounted = TRUE
    /\ framesDelivered = 0
    /\ framesSent = 0
    /\ startFailed = FALSE
    /\ widgetLastOp = "init"

NextLife ==
    \/ ScriptsLoaded
    \/ ScriptsFail
    \/ ClickStart
    \/ CameraStarts
    \/ CameraRejects
    \/ ClickStop
    \/ CameraFrame
    \/ WidgetUnmount

(***************************************************************************)
(* HandTeleopProject, the project page (latest version, lines 1002-1400).  *)
(* A handler called from a button is the one of the latest render and      *)
(* reads the current state; what it starts asynchronously (a timer, the    *)
(* fetch of a frame) keeps the values of that render.  The health check of *)
(* the mount effect is left out.                                           *)
(***************************************************************************)
LogLimit == 50            \* .slice(0, 50)
\* Entries the console may take in one run of the model.
MaxLog == 7
\* Frames requests the page may have in flight at once.
MaxRequests == 2

Take(seq, n) == IF Len(seq) <= n THEN seq ELSE SubSeq(seq, 1, n)
\* addToConsole (lines 1043-1046): the consoleLogs state after the call
\* (variant: without the slice)
addToConsole_unbounded(logs, message) == <<message>> \o logs
addToConsole(logs, message) == Take(<<message>> \o logs, LogLimit)

NoFingertipData == [tips |-> "null", timestamp |-> 0]   \* lines 1014-1019
\* setFingertipData({thumb: null, indexPip: null, indexTip: null, timestamp: Date.now()})
ClearedAt(now) == [tips |-> "null", timestamp |-> now]
InitialRobotState == "initial"                          \* lines 1020-1029
RobotStates == {InitialRobotState, "fromBackend"}

\* What the backend may answer to a frame: a hand with its fingertips, no
\* hand (fingertips all null), a body without fingertips, a non-2xx status;
\* or the request fails.
TrackOutcomes == {"hand", "no_hand", "no_fingertips", "non2xx", "network_error"}

\* processHandTracking (lines 1208-1322) as the closure of a render with the
\* given isCameraActive, isTracking and isConnected: it captures one frame
\* and posts it, then asks for the next animation frame if its isTracking
\* is set.
processHandTracking(cameraActive, tracking, connected) ==
    IF ~cameraActive \/ ~pageMounted
    THEN UNCHANGED <<trackRequests, requestSawConnected, animationRef, rafPending>>
    ELSE /\ trackRequests' = trackRequests + 1
         /\ requestSawConnected' = connected
         /\ IF tracking
            THEN animationRef' = 1 /\ rafPending' = TRUE
            ELSE UNCHANGED <<animationRef, rafPending>>

\* stopTracking of the page (lines 1200-1206): the consoleLogs after it
pageStopTracking ==
    /\ pageIsTracking' = FALSE
    /\ rafPending' = IF animationRef # Null THEN FALSE ELSE rafPending
    /\ UNCHANGED animationRef

\* startTracking of the page (lines 1190-1198)
pageStartTracking ==
    IF ~isCameraActive
    THEN /\ consoleLogs' = addToConsole(consoleLogs, "Camera not active")
         /\ UNCHANGED <<pageIsTracking, trackRequests, requestSawConnected,
                        animationRef, rafPending>>
    ELSE /\ pageIsTracking' = TRUE
         /\ consoleLogs' = addToConsole(consoleLogs, "Hand tracking started")
         /\ processHandTracking(isCameraActive, pageIsTracking, pageIsConnected)

\* stopCamera (lines 1094-1111)
\* (variant: the camera is stopped without stopping the tracking)
stopCamera_keepsTracking ==
    /\ consoleLogs' = addToConsole(consoleLogs, "Camera stopped")
    /\ UNCHANGED <<pageIsTracking, rafPending, animationRef>>
    /\ streamRef' = "null"
    /\ isCameraActive' = FALSE
stopCamera ==
    /\ IF pageIsTracking
       THEN /\ pageStopTracking
            /\ consoleLogs' = addToConsole(addToConsole(consoleLogs, "Hand tracking stopped"),
                                           "Camera stopped")
       ELSE /\ consoleLogs' = addToConsole(consoleLogs, "Camera stopped")
            /\ UNCHANGED <<pageIsTracking, rafPending, animationRef>>
    /\ streamRef' = "null"
    /\ isCameraActive' = FALSE

\* "Start Camera" button, disabled while isCameraActive and only then (lines
\* 1578-1579): startCamera runs up to its await of getUserMedia (lines
\* 1064-1068).
ClickStartCamera ==
    /\ UNCHANGED outsidePage
    /\ pageMounted /\ ~isCameraActive /\ cameraRequests < MaxRequests
    /\ cameraRequests' = cameraRequests + 1
    /\ pageLastOp' = "start_camera"
    /\ UNCHANGED <<pageIsConnected, isCameraActive, pageIsTracking, consoleLogs,
                   fingertipData, robotState, streamRef, animationRef, rafPending,
                   autoTimers, trackRequests, requestSawConnected, connectPending,
                   polling, clock, pageMounted>>

\* getUserMedia resolves (lines 1070-1086); videoRef.current is the <video>
\* element while the page is mounted and null afterwards.
CameraGranted ==
    /\ UNCHANGED outsidePage
    /\ cameraRequests > 0 /\ Len(consoleLogs) < MaxLog
    /\ cameraRequests' = cameraRequests - 1
    /\ IF pageMounted
       THEN /\ streamRef' = "live"
            /\ consoleLogs' = addToConsole(consoleLogs, "Camera started successfully")
            /\ isCameraActive' = TRUE
            /\ autoTimers' = autoTimers + 1
       ELSE UNCHANGED <<streamRef, consoleLogs, isCameraActive, autoTimers>>
    /\ pageLastOp' = "camera_granted"
    /\ UNCHANGED <<pageIsConnected, pageIsTracking, fingertipData, robotState,
                   animationRef, rafPending, trackRequests, requestSawConnected,
                   connectPending, polling, clock, pageMounted>>

\* getUserMedia rejects (lines 1087-1091).
CameraDenied ==
    /\ UNCHANGED outsidePage
    /\ cameraRequests > 0 /\ Len(consoleLogs) < MaxLog
    /\ cameraRequests' = cameraRequests - 1
    /\ consoleLogs' = addToConsole(consoleLogs, "Camera error")
    /\ pageLastOp' = "camera_denied"
    /\ UNCHANGED <<pageIsConnected, isCameraActive, pageIsTracking, fingertipData,
                   robotState, streamRef, animationRef, rafPending, autoTimers,
                   trackRequests, requestSawConnected, connectPending, polling,
                   clock, pageMounted>>

\* The auto-start timer of startCamera fires (lines 1079-1085).  Its closure is
\* the startCamera of a render with isCameraActive false (the button is
\* disabled otherwise).  The video has data (readyState >= 2) or not yet; it
\* has none once its srcObject is null.
AutoStartFires ==
    /\ UNCHANGED outsidePage
    /\ autoTimers > 0 /\ Len(consoleLogs) < MaxLog
    /\ autoTimers' = autoTimers - 1
    /\ \E ready \in (IF pageMounted /\ streamRef = "live" THEN BOOLEAN ELSE {FALSE}) :
          IF ready
          THEN /\ pageIsTracking' = TRUE
               /\ consoleLogs' = addToConsole(consoleLogs, "Hand tracking started")
               /\ processHandTracking(FALSE, pageIsTracking, pageIsConnected)
               /\ pageLastOp' = "auto_start"
          ELSE /\ pageLastOp' = "auto_start_skipped"
               /\ UNCHANGED <<pageIsTracking, consoleLogs, trackRequests,
                              requestSawConnected, animationRef, rafPending>>
    /\ UNCHANGED <<pageIsConnected, isCameraActive, fingertipData, robotState,
                   streamRef, cameraRequests, connectPending, polling, clock,
                   pageMounted>>

\* "Stop Camera" button, disabled while !isCameraActive (lines 1596-1597).
ClickStopCamera ==
    /\ UNCHANGED outsidePage
    /\ pageMounted /\ isCameraActive /\ Len(consoleLogs) + 1 < MaxLog
    /\ stopCamera
    /\ pageLastOp' = "stop_camera"
    /\ UNCHANGED <<pageIsConnected, fingertipData, robotState, cameraRequests,
                   autoTimers, trackRequests, requestSawConnected, connectPending,
                   polling, clock, pageMounted>>

\* "Connect Robot" button, disabled while isConnected and only then (lines
\* 1536-1537): connectToRobot runs up to its await of the configuration
\* request.  A request already awaited does not disable the button.
ClickConnectRobot ==
    /\ UNCHANGED outsidePage
    /\ pageMounted /\ ~pageIsConnected /\ connectPending < MaxRequests
    /\ Len(consoleLogs) < MaxLog
    /\ consoleLogs' = addToConsole(consoleLogs, "Connecting to robot")
    /\ connectPending' = connectPending + 1
    /\ pageLastOp' = "connect_robot"
    /\ UNCHANGED <<pageIsConnected, isCameraActive, pageIsTracking, fingertipData,
                   robotState, streamRef, animationRef, rafPending, cameraRequests,
                   autoTimers, trackRequests, requestSawConnected, polling, clock,
                   pageMounted>>

\* startRobotStatusPolling (lines 1148-1188): setInterval creates one more
\* interval; the clearing function it returns is dropped by its caller.
startRobotStatusPolling == polling + 1

\* A configuration request is answered (lines 1127-1145).  On success
\* startRobotStatusPolling sets up a 100 ms interval, which nothing clears.
ConnectAnswered ==
    /\ UNCHANGED outsidePage
    /\ connectPending > 0 /\ Len(consoleLogs) < MaxLog
    /\ connectPending' = connectPending - 1
    /\ \E outcome \in {"ok", "non2xx", "network_error"} :
          /\ pageIsConnected' = IF outcome = "ok" THEN TRUE ELSE pageIsConnected
          /\ polling' = IF outcome = "ok" THEN startRobotStatusPolling ELSE polling
          /\ consoleLogs' = addToConsole(consoleLogs,
                 IF outcome = "ok" THEN "Robot configured successfully"
                 ELSE IF outcome = "non2xx" THEN "Failed to configure robot"
                 ELSE "Connection error")
          /\ pageLastOp' = IF outcome = "ok" THEN "connected" ELSE "connect_failed"
    /\ UNCHANGED <<isCameraActive, pageIsTracking, fingertipData, robotState,
                   streamRef, animationRef, rafPending, cameraRequests, autoTimers,
                   trackRequests, requestSawConnected, clock, pageMounted>>

\* A tick of the polling interval (lines 1149-1151): pollRobotStatus is the
\* closure of the connectToRobot call, made in a render with isConnected
\* false, and returns at its first line.
PollTick ==
    /\ UNCHANGED outsidePage
    /\ polling > 0
    /\ pageLastOp' = "poll"
    /\ UNCHANGED <<pageIsConnected, isCameraActive, pageIsTracking, consoleLogs,
                   fingertipData, robotState, streamRef, animationRef, rafPending,
                   cameraRequests, autoTimers, trackRequests, requestSawConnected,
                   connectPending, polling, clock, pageMounted>>

\* The tracking button (lines 1545-1546, enabled while isConnected and
\* isCameraActive) in a render with !isTracking.
ClickPageStartTracking ==
    /\ UNCHANGED outsidePage
    /\ pageMounted /\ pageIsConnected /\ isCameraActive /\ ~pageIsTracking
    /\ Len(consoleLogs) < MaxLog /\ trackRequests < MaxRequests
    /\ pageStartTracking
    /\ pageLastOp' = "start_tracking"
    /\ UNCHANGED <<pageIsConnected, isCameraActive, fingertipData, robotState,
                   streamRef, cameraRequests, autoTimers, connectPending, polling,
                   clock, pageMounted>>

\* The tracking button in a render with isTracking.
ClickPageStopTracking ==
    /\ UNCHANGED outsidePage
    /\ pageMounted /\ pageIsConnected /\ isCameraActive /\ pageIsTracking
    /\ Len(consoleLogs) < MaxLog
    /\ pageStopTracking
    /\ consoleLogs' = addToConsole(consoleLogs, "Hand tracking stopped")
    /\ pageLastOp' = "stop_tracking"
    /\ UNCHANGED <<pageIsConnected, isCameraActive, fingertipData, robotState,
                   streamRef, cameraRequests, autoTimers, trackRequests,
                   requestSawConnected, connectPending, polling, clock, pageMounted>>

\* The POST /track of a frame is answered or fails (lines 1238-1312).
TrackAnswered(outcome) ==
    /\ UNCHANGED outsidePage
    /\ trackRequests > 0
    /\ outcome \in {"hand", "network_error"} => Len(consoleLogs) < MaxLog
    /\ trackRequests' = trackRequests - 1
    /\ clock' = clock + 1
    /\ fingertipData' =
           IF outcome = "hand" THEN [tips |-> "hand", timestamp |-> clock']
           ELSE IF outcome = "no_fingertips" THEN fingertipData
           ELSE ClearedAt(clock')
    /\ robotState' =
           IF outcome \in {"hand", "no_hand"} /\ requestSawConnected
           THEN "fromBackend" ELSE robotState
    /\ consoleLogs' =
           IF outcome = "hand" THEN addToConsole(consoleLogs, "Hand detected")
           ELSE IF outcome = "network_error" THEN addToConsole(consoleLogs, "API Error")
           ELSE consoleLogs
    /\ pageLastOp' = IF outcome \in {"non2xx", "network_error"}
                     THEN "track_failed" ELSE "track_ok"
    /\ UNCHANGED <<pageIsConnected, isCameraActive, pageIsTracking, streamRef,
                   animationRef, rafPending, cameraRequests, autoTimers,
                   requestSawConnected, connectPending, polling, pageMounted>>

\* The user leaves the page: the component has no cleanup effect.
PageUnmount ==
    /\ UNCHANGED outsidePage
    /\ pageMounted
    /\ pageMounted' = FALSE
    /\ pageLastOp' = "unmount"
    /\ UNCHANGED <<pageIsConnected, isCameraActive, pageIsTracking, consoleLogs,
                   fingertipData, robotState, streamRef, animationRef, rafPending,
                   cameraRequests, autoTimers, trackRequests, requestSawConnected,
                   connectPending, polling, clock>>

InitPage ==
    /\ pageIsConnected = FALSE
    /\ isCameraActive = FALSE
    /\ pageIsTracking = FALSE
    /\ consoleLogs = <<>>
    /\ fingertipData = NoFingertipData
    /\ robotState = InitialRobotState
    /\ streamRef = "null"
    /\ animationRef = Null
    /\ rafPending = FALSE
    /\ cameraRequests = 0
    /\ autoTimers = 0
    /\ trackRequests = 0
    /\ requestSawConnected = FALSE
    /\ connectPending = 0
    /\ polling = 0
    /\ clock = 0
    /\ pageMounted = TRUE
    /\ pageLastOp = "init"

NextPage ==
    \/ ClickStartCamera
    \/ CameraGranted
    \/ CameraDenied
    \/ AutoStartFires
    \/ ClickStopCamera
    \/ ClickConnectRobot
    \/ ConnectAnswered
    \/ PollTick
    \/ ClickPageStartTracking
    \/ ClickPageStopTracking
    \/ \E outcome \in TrackOutcomes : TrackAnswered(outcome)
    \/ PageUnmount

(***************************************************************************)
(* HandTeleopApiDemo: its four request/response operations.  Each is an    *)
(* async function: the call runs up to the await of fetch, the rest runs   *)
(* when the backend answers 2xx ("ok"), answers another status ("non2xx")  *)
(* or the request fails ("network_error").                                 *)
(***************************************************************************)
\* Health checks the user may have in flight at once.
MaxPending == 2
Outcomes == {"ok", "non2xx", "network_error"}
ServerRobots == {"so101", "so100"}                     \* data.robots of the backend
FallbackRobots == {"so101", "so100", "koch", "moss"}   \* lines 95-100
NoHealth == "null"                                     \* useState<ApiHealth|null>(null)
NoRobotData == "null"                                  \* useState<RobotData|null>(null)

\* checkApiHealth after its fetch (lines 69-80): the isConnected and apiHealth
\* state after it
\* (variant: any failure marks the API as not connected)
checkApiHealth_non2xxDisconnects(outcome) ==
    IF outcome = "ok"
    THEN [isConnected |-> TRUE, apiHealth |-> "healthy"]
    ELSE [isConnected |-> FALSE, apiHealth |-> apiHealth]
checkApiHealth(outcome) ==
    IF outcome = "ok"
    THEN [isConnected |-> TRUE, apiHealth |-> "healthy"]
    ELSE IF outcome = "network_error"
    THEN [isConnected |-> FALSE, apiHealth |-> apiHealth]
    ELSE [isConnected |-> demoIsConnected, apiHealth |-> apiHealth]

\* fetchAvailableRobots after its fetch (lines 84-102): the robots and
\* selectedRobot state after it; current is data.current_robot or "null"
fetchAvailableRobots(outcome, current) ==
    IF outcome = "ok"
    THEN [robots |-> ServerRobots,
          selectedRobot |-> IF current # "null" THEN current ELSE selectedRobot]
    ELSE IF outcome = "network_error"
    THEN [robots |-> FallbackRobots, selectedRobot |-> selectedRobot]
    ELSE [robots |-> robots, selectedRobot |-> selectedRobot]

\* configureRobot after its fetch (lines 115-121): the selectedRobot after it
configureRobot(outcome, robotId) ==
    IF outcome = "ok" THEN robotId ELSE selectedRobot

\* testApiTracking after its fetch (lines 137-148): the robotData after it
testApiTracking(outcome) ==
    IF outcome = "ok" THEN "trackResult" ELSE robotData

\* "Refresh Status" button (line 240): checkApiHealth up to its fetch.
ClickRefresh ==
    /\ UNCHANGED outsideDemo /\ UNCHANGED demoWsVars
    /\ healthPending < MaxPending
    /\ healthPending' = healthPending + 1
    /\ demoLastOp' = [op |-> "refresh", outcome |-> "none"]
    /\ UNCHANGED <<demoIsConnected, demoIsLoading, robots, selectedRobot, robotData,
                   apiHealth, robotsPending, configurePending, trackPending>>

\* A health check is answered.
HealthAnswered(outcome) ==
    /\ UNCHANGED outsideDemo /\ UNCHANGED demoWsVars
    /\ healthPending > 0
    /\ healthPending' = healthPending - 1
    /\ LET st == checkApiHealth(outcome) IN
           /\ demoIsConnected' = st.isConnected
           /\ apiHealth' = st.apiHealth
    /\ demoLastOp' = [op |-> "health_answered", outcome |-> outcome]
    /\ UNCHANGED <<demoIsLoading, robots, selectedRobot, robotData,
                   robotsPending, configurePending, trackPending>>

\* The robots list of the mount effect is answered.
RobotsAnswered(outcome) ==
    /\ UNCHANGED outsideDemo /\ UNCHANGED demoWsVars
    /\ robotsPending > 0
    /\ robotsPending' = robotsPending - 1
    /\ \E current \in {"null", "so100"} :
          LET st == fetchAvailableRobots(outcome, current) IN
              /\ robots' = st.robots
              /\ selectedRobot' = st.selectedRobot
    /\ demoLastOp' = [op |-> "robots_answered", outcome |-> outcome]
    /\ UNCHANGED <<demoIsConnected, demoIsLoading, robotData, apiHealth,
                   healthPending, configurePending, trackPending>>

\* The button of a listed robot (line 225): configureRobot up to its fetch.
ClickRobot(robotId) ==
    /\ UNCHANGED outsideDemo /\ UNCHANGED demoWsVars
    /\ robotId \in robots /\ configurePending = {}
    /\ configurePending' = {robotId}
    /\ demoLastOp' = [op |-> "configure", outcome |-> "none"]
    /\ UNCHANGED <<demoIsConnected, demoIsLoading, robots, selectedRobot, robotData,
                   apiHealth, healthPending, robotsPending, trackPending>>

\* A robot configuration is answered.
ConfigureAnswered(outcome) ==
    /\ UNCHANGED outsideDemo /\ UNCHANGED demoWsVars
    /\ \E robotId \in configurePending :
          /\ configurePending' = configurePending \ {robotId}
          /\ selectedRobot' = configureRobot(outcome, robotId)
    /\ demoLastOp' = [op |-> "configure_answered", outcome |-> outcome]
    /\ UNCHANGED <<demoIsConnected, demoIsLoading, robots, robotData, apiHealth,
                   healthPending, robotsPending, trackPending>>

\* "Test API Tracking" button, disabled while isLoading || !isConnected
\* (line 236): testApiTracking up to its fetch (lines 125-135).
ClickTest ==
    /\ UNCHANGED outsideDemo /\ UNCHANGED demoWsVars
    /\ ~demoIsLoading /\ demoIsConnected
    /\ demoIsLoading' = TRUE
    /\ trackPending' = trackPending + 1
    /\ demoLastOp' = [op |-> "test", outcome |-> "none"]
    /\ UNCHANGED <<demoIsConnected, robots, selectedRobot, robotData, apiHealth,
                   healthPending, robotsPending, configurePending>>

\* The tracking test is answered; its finally clears isLoading.
TestAnswered(outcome) ==
    /\ UNCHANGED outsideDemo /\ UNCHANGED demoWsVars
    /\ trackPending > 0
    /\ trackPending' = trackPending - 1
    /\ robotData' = testApiTracking(outcome)
    /\ demoIsLoading' = FALSE
    /\ demoLastOp' = [op |-> "test_answered", outcome |-> outcome]
    /\ UNCHANGED <<demoIsConnected, robots, selectedRobot, apiHealth,
                   healthPending, robotsPending, configurePending>>

(***************************************************************************)
(* HandTeleopApiDemo: its WebSocket (lines 151-192).  Every socket keeps   *)
(* the handlers connectWebSocket installed on it; they call setWs whatever *)
(* the ws state holds at the time.  onerror only logs, so a failed         *)
(* connection shows as its close event.                                    *)
(***************************************************************************)
\* WebSocket objects of the demo that are not yet closed, at most.
MaxDemoSockets == 2
DemoSockets == 1..MaxDemoSockets       \* ids are reused once the object is closed
DemoLive == {s \in DemoSockets : demoSockState[s] # "free"}
NewDemoSocket == CHOOSE s \in DemoSockets :
                     /\ demoSockState[s] = "free"
                     /\ \A u \in DemoSockets : demoSockState[u] = "free" => s <= u

\* connectWebSocket (lines 151-185) up to its return: a new socket, connecting
demoConnectWebSocket ==
    /\ demoSockState' = [demoSockState EXCEPT ![NewDemoSocket] = "CONNECTING"]
    /\ UNCHANGED ws

\* newWs.onopen (lines 156-159) of socket s
demoOnopen(s) == ws' = s

\* newWs.onclose (lines 173-176)
demoOnclose == ws' = Null

\* newWs.onmessage (lines 161-171): the robotData state after it
demoOnmessage(text) ==
    IF text.json /\ text.type = "tracking_result" THEN text.data ELSE robotData

\* disconnectWebSocket (lines 187-192), ws being the state of the render
demoDisconnectWebSocket ==
    IF ws # Null
    THEN /\ demoSockState' = [demoSockState EXCEPT
                 ![ws] = IF @ \in {"CONNECTING", "OPEN"} THEN "CLOSING" ELSE @]
         /\ ws' = Null
    ELSE UNCHANGED <<ws, demoSockState>>

\* "Connect WebSocket" button, rendered while !ws and disabled while
\* !isConnected (lines 244-247).
ClickConnectWebSocket ==
    /\ UNCHANGED outsideDemo
    /\ ws = Null /\ demoIsConnected
    /\ Cardinality(DemoLive) < MaxDemoSockets
    /\ demoConnectWebSocket
    /\ demoLastOp' = [op |-> "ws_connect", outcome |-> "none"]
    /\ UNCHANGED <<demoIsConnected, demoIsLoading, robots, selectedRobot, robotData,
                   apiHealth, healthPending, robotsPending, configurePending,
                   trackPending>>

\* "Disconnect WebSocket" button, rendered while ws (lines 248-251).
ClickDisconnectWebSocket ==
    /\ UNCHANGED outsideDemo
    /\ ws # Null
    /\ demoDisconnectWebSocket
    /\ demoLastOp' = [op |-> "ws_disconnect", outcome |-> "none"]
    /\ UNCHANGED <<demoIsConnected, demoIsLoading, robots, selectedRobot, robotData,
                   apiHealth, healthPending, robotsPending, configurePending,
                   trackPending>>

\* The connection of socket s is established: readyState OPEN, open event.
DemoOpenEvent(s) ==
    /\ UNCHANGED outsideDemo
    /\ demoSockState[s] = "CONNECTING"
    /\ demoSockState' = [demoSockState EXCEPT ![s] = "OPEN"]
    /\ demoOnopen(s)
    /\ demoLastOp' = [op |-> "ws_open", outcome |-> "none"]
    /\ UNCHANGED <<demoIsConnected, demoIsLoading, robots, selectedRobot, robotData,
                   apiHealth, healthPending, robotsPending, configurePending,
                   trackPending>>

\* The close event of socket s: the connection failed or was lost, the server
\* closed it, or the closing handshake that close() started has ended.
DemoCloseEvent(s) ==
    /\ UNCHANGED outsideDemo
    /\ demoSockState[s] \in {"CONNECTING", "OPEN", "CLOSING"}
    /\ demoSockState' = [demoSockState EXCEPT ![s] = "free"]
    /\ demoOnclose
    /\ demoLastOp' = [op |-> "ws_close", outcome |-> "none"]
    /\ UNCHANGED <<demoIsConnected, demoIsLoading, robots, selectedRobot, robotData,
                   apiHealth, healthPending, robotsPending, configurePending,
                   trackPending>>

\* A message event on socket s (delivered only while its readyState is OPEN).
DemoMessageEvent(s, text) ==
    /\ UNCHANGED outsideDemo
    /\ demoSockState[s] = "OPEN"
    /\ robotData' = demoOnmessage(text)
    /\ demoLastOp' = [op |-> "ws_message", outcome |-> "none"]
    /\ UNCHANGED <<demoIsConnected, demoIsLoading, robots, selectedRobot, apiHealth,
                   healthPending, robotsPending, configurePending, trackPending,
                   ws, demoSockState>>

\* After the mount effect (lines 63-66): both of its requests are in flight.
InitDemo ==
    /\ demoIsConnected = FALSE
    /\ demoIsLoading = FALSE
    /\ robots = {}
    /\ selectedRobot = "so101"
    /\ robotData = NoRobotData
    /\ apiHealth = NoHealth
    /\ healthPending = 1
    /\ robotsPending = 1
    /\ configurePending = {}
    /\ trackPending = 0
    /\ demoLastOp = [op |-> "init", outcome |-> "none"]
    /\ ws = Null
    /\ demoSockState = [s \in DemoSockets |-> "free"]

NextDemo ==
    \/ ClickRefresh
    \/ \E outcome \in Outcomes : HealthAnswered(outcome)
    \/ \E outcome \in Outcomes : RobotsAnswered(outcome)
    \/ \E robotId \in FallbackRobots : ClickRobot(robotId)
    \/ \E outcome \in Outcomes : ConfigureAnswered(outcome)
    \/ ClickTest
    \/ \E outcome \in Outcomes : TestAnswered(outcome)
    \/ ClickConnectWebSocket
    \/ ClickDisconnectWebSocket
    \/ \E s \in DemoSockets : DemoOpenEvent(s)
    \/ \E s \in DemoSockets : DemoCloseEvent(s)
    \/ \E s \in DemoSockets : \E text \in Texts : DemoMessageEvent(s, text)

(***************************************************************************)
(* Navbar (src/unnamed/part_000) under the root Layout.  The Layout puts   *)
(* the class "dark" on the document root when the page loads; the Navbar   *)
(* keeps its own `dark` state and the highlighted section `active`.        *)
(***************************************************************************)
\* Distance of two sections' tops, in scroll steps.
SectionGap == 4
\* toggleDark calls in one run of the model.
MaxToggles == 3
NavIds == <<"home", "about", "projects", "vision", "contact">>    \* lines 4-10
MaxScroll == (Len(NavIds) - 1) * SectionGap
\* top: Infinity of a section that is not in the document (line 20)
Infinity == MaxScroll + 1
Abs(n) == IF n < 0 THEN 0 - n ELSE n

\* offsets of handleScroll (lines 17-23) at scroll position y
Offsets(y, present) ==
    [k \in 1..Len(NavIds) |->
        [id |-> NavIds[k],
         top |-> IF present THEN Abs((k - 1) * SectionGap - y) ELSE Infinity]]
\* offsets.reduce((a, b) => (a.top < b.top ? a : b)) (line 24)
RECURSIVE Reduce(_, _)
Reduce(offsets, k) ==
    IF k = 1 THEN offsets[1]
    ELSE LET a == Reduce(offsets, k - 1)
             b == offsets[k]
         IN  IF a.top < b.top THEN a ELSE b
\* handleScroll (lines 16-26): the active state after it
handleScroll(y, present) == Reduce(Offsets(y, present), Len(NavIds)).id

\* handleClick (lines 43-53): the active state after it; every href of the
\* bar starts with "#"
handleClick(id) == id

\* toggleDark (lines 35-41): the updater computes next from the state and
\* forces the root's class to it.
toggleDark ==
    LET next == ~dark IN
        /\ rootDark' = next
        /\ dark' = next

\* The window is scrolled, by the user or by a smooth scroll under way.
Scroll(y) ==
    /\ UNCHANGED outsideNav
    /\ y # scrollY
    /\ scrollY' = y
    /\ active' = handleScroll(y, hasSections)
    /\ UNCHANGED <<dark, rootDark, hasSections, rootHistory>>

\* A link of the bar is clicked.
ClickNav(id) ==
    /\ UNCHANGED outsideNav
    /\ active' = handleClick(id)
    /\ UNCHANGED <<dark, rootDark, scrollY, hasSections, rootHistory>>

\* The effect of lines 15-32 runs again after a render: navItems is a new
\* array in every render, so the effect's dependency always differs, and the
\* effect calls handleScroll (line 29).
EffectRuns ==
    /\ UNCHANGED outsideNav
    /\ active' = handleScroll(scrollY, hasSections)
    /\ UNCHANGED <<dark, rootDark, scrollY, hasSections, rootHistory>>

\* The router shows another page in the Outlet: the home page with the five
\* sections, or a page without them.
Navigate ==
    /\ UNCHANGED outsideNav
    /\ hasSections' = ~hasSections
    /\ UNCHANGED <<active, dark, rootDark, scrollY, rootHistory>>

\* The dark-mode button is clicked.
ClickToggleDark ==
    /\ UNCHANGED outsideNav
    /\ Len(rootHistory) <= MaxToggles
    /\ toggleDark
    /\ rootHistory' = Append(rootHistory, rootDark')
    /\ UNCHANGED <<active, scrollY, hasSections>>

\* After the page has loaded and the Navbar's mount effect has run
\* (handleScroll at line 29): the Layout has put "dark" on the root.
InitNav ==
    /\ dark = FALSE
    /\ rootDark = TRUE
    /\ scrollY = 0
    /\ hasSections = TRUE
    /\ active = handleScroll(0, hasSections)
    /\ rootHistory = <<TRUE>>

NextNav ==
    \/ \E y \in 0..MaxScroll : Scroll(y)
    \/ \E k \in 1..Len(NavIds) : ClickNav(NavIds[k])
    \/ ClickToggleDark
    \/ EffectRuns
    \/ Navigate

(***************************************************************************)
(* The stop operations called on a component whose camera is stopped.  The *)
(* buttons do not offer them in these states; they are called as           *)
(* operations of the component.  The states are ones the component gets    *)
(* into through its buttons.                                               *)
(***************************************************************************)
\* status, camera, scripts and startFailed of a widget that is not tracking
StoppedWidgets ==
    {[status |-> Ready, camera |-> "none", scripts |-> "loaded", startFailed |-> FALSE],
     [status |-> StartFailed, camera |-> "none", scripts |-> "loading", startFailed |-> TRUE],
     [status |-> StartFailed, camera |-> "idle", scripts |-> "loaded", startFailed |-> TRUE],
     [status |-> Stopped, camera |-> "idle", scripts |-> "loaded", startFailed |-> FALSE],
     [status |-> LoadFailed, camera |-> "none", scripts |-> "failed", startFailed |-> FALSE]}

\* the state of a page whose camera is not active
StoppedPages ==
    {[connected |-> FALSE, logs |-> <<>>,
      data |-> NoFingertipData, robot |-> InitialRobotState, time |-> 0],
     [connected |-> FALSE, logs |-> <<"Camera error">>,
      data |-> NoFingertipData, robot |-> InitialRobotState, time |-> 0],
     [connected |-> FALSE, logs |-> <<"Camera stopped", "Camera started successfully">>,
      data |-> NoFingertipData, robot |-> InitialRobotState, time |-> 0],
     [connected |-> TRUE, logs |-> <<"Robot configured successfully", "Connecting to robot">>,
      data |-> NoFingertipData, robot |-> InitialRobotState, time |-> 0],
     [connected |-> TRUE,
      logs |-> <<"Camera stopped", "Hand tracking stopped", "Hand detected",
                 "Hand tracking started", "Camera started successfully",
                 "Robot configured successfully", "Connecting to robot">>,
      data |-> [tips |-> "hand", timestamp |-> 1], robot |-> "fromBackend", time |-> 1]}

\* stopTracking of the widget is called.
CallStopTracking ==
    /\ UNCHANGED outsideLife
    /\ ~widgetIsTracking /\ camera # "running"
    /\ widgetStopTracking
    /\ widgetLastOp' = "stop_called"
    /\ UNCHANGED <<videoSize, handlerIsTracking, results, frameCountRef, sinceLastTime,
                   isLoading, scripts, widgetMounted, framesDelivered, framesSent,
                   startFailed>>

\* stopCamera of the page is called.
CallStopCamera ==
    /\ UNCHANGED outsidePage
    /\ ~isCameraActive /\ Len(consoleLogs) <= MaxLog
    /\ stopCamera
    /\ pageLastOp' = "stop_called"
    /\ UNCHANGED <<pageIsConnected, fingertipData, robotState, cameraRequests,
                   autoTimers, trackRequests, requestSawConnected, connectPending,
                   polling, clock, pageMounted>>

InitStopped ==
    /\ InitWS /\ InitWidget /\ InitDemo /\ InitNav
    /\ \E w \in StoppedWidgets :
          /\ status = w.status /\ camera = w.camera
          /\ scripts = w.scripts /\ startFailed = w.startFailed
    /\ widgetIsTracking = FALSE /\ isLoading = FALSE /\ widgetMounted = TRUE
    /\ framesDelivered = 0 /\ framesSent = 0 /\ widgetLastOp = "init"
    /\ \E q \in StoppedPages :
          /\ pageIsConnected = q.connected
          /\ polling = IF q.connected THEN 1 ELSE 0
          /\ requestSawConnected = (q.time > 0)
          /\ consoleLogs = q.logs /\ fingertipData = q.data
          /\ robotState = q.robot /\ clock = q.time
    /\ isCameraActive = FALSE /\ pageIsTracking = FALSE /\ streamRef = "null"
    /\ animationRef = Null /\ rafPending = FALSE
    /\ cameraRequests = 0 /\ autoTimers = 0 /\ trackRequests = 0
    /\ connectPending = 0 /\ pageMounted = TRUE /\ pageLastOp = "init"

NextStopped ==
    \/ CallStopTracking
    \/ CallStopCamera

SpecStopped == InitStopped /\ [][NextStopped]_vars

(***************************************************************************)
(* addToConsole applied to consoles at and near the limit of 50 entries.   *)
(* An entry is the text `[timestamp] message`, here the pair of the two;   *)
(* the clock advances with every call, so that the entries tell the calls  *)
(* apart.                                                                  *)
(***************************************************************************)
\* Calls made on a console that already holds LogLimit entries.
MaxExtra == 2
ConsoleMessages == {"Camera started successfully", "Camera stopped", "Connection error"}
\* The console after n <= LogLimit calls, made at the times 1..n: each call
\* has put its entry before the others and the slice has dropped nothing.
ConsoleAfter(n) == [i \in 1..n |-> [timestamp |-> n - i + 1, message |-> "earlier"]]

\* One more call of addToConsole.
LogMessage(message) ==
    /\ UNCHANGED outsidePage
    /\ clock < LogLimit + MaxExtra
    /\ clock' = clock + 1
    /\ consoleLogs' = addToConsole(consoleLogs, [timestamp |-> clock', message |-> message])
    /\ pageLastOp' = "log"
    /\ UNCHANGED <<pageIsConnected, isCameraActive, pageIsTracking, fingertipData,
                   robotState, streamRef, animationRef, rafPending, cameraRequests,
                   autoTimers, trackRequests, requestSawConnected, connectPending,
                   polling, pageMounted>>

InitConsole ==
    /\ InitWS /\ InitWidget /\ InitLife /\ InitDemo /\ InitNav
    /\ \E n \in (LogLimit - 2)..LogLimit :
          /\ clock = n
          /\ consoleLogs = ConsoleAfter(n)
    /\ pageIsConnected = FALSE /\ isCameraActive = FALSE /\ pageIsTracking = FALSE
    /\ fingertipData = NoFingertipData /\ robotState = InitialRobotState
    /\ streamRef = "null" /\ animationRef = Null /\ rafPending = FALSE
    /\ cameraRequests = 0 /\ autoTimers = 0 /\ trackRequests = 0
    /\ requestSawConnected = FALSE /\ connectPending = 0 /\ polling = 0
    /\ pageMounted = TRUE /\ pageLastOp = "init"

NextConsole == \E message \in ConsoleMessages : LogMessage(message)

SpecConsole == InitConsole /\ [][NextConsole]_vars

NextWS ==
    \/ ClickConnect
    \/ ClickStartTracking
    \/ ClickStopTracking
    \/ ClickDisconnect
    \/ Unmount
    \/ \E t \in TimerIds : TimerFires(t)
    \/ \E s \in Sockets : OpenEvent(s)
    \/ \E s \in Sockets : ErrorEvent(s)
    \/ \E s \in Sockets : CloseEvent(s)
    \/ \E s \in Sockets : \E text \in Texts : MessageEvent(s, text)
    \/ PingTick

\* The streaming client.
Init == InitWS /\ InitWidget /\ InitLife /\ InitPage /\ InitDemo /\ InitNav
Spec == Init /\ [][NextWS]_vars

\* The widget from mount to unmount.
SpecWidget == Init /\ [][NextLife]_vars

\* The project page from mount to unmount.
SpecPage == Init /\ [][NextPage]_vars

\* The API demo from its mount on.
SpecDemo == Init /\ [][NextDemo]_vars
SpecNavbar == Init /\ [][NextNav]_vars

(***************************************************************************)
(* The streaming client while the backend stays unreachable and the user   *)
(* never disconnects: no socket opens, every attempt fails.  The event     *)
(* loop runs a due timer and delivers the events of a failed connection.   *)
(***************************************************************************)
NextUnreachable ==
    \/ ClickConnect
    \/ \E t \in TimerIds : TimerFires(t)
    \/ \E s \in Sockets : ErrorEvent(s)
    \/ \E s \in Sockets : CloseEvent(s)

SpecUnreachable ==
    /\ Init /\ [][NextUnreachable]_vars
    /\ SF_vars(\E t \in TimerIds : TimerFires(t))
    /\ WF_vars(\E s \in Sockets : ErrorEvent(s))
    /\ WF_vars(\E s \in Sockets : CloseEvent(s))

(***************************************************************************)
(* Properties of the streaming client.                                     *)
(***************************************************************************)
TypeOKWS ==
    /\ isConnected \in BOOLEAN /\ isTracking \in BOOLEAN /\ mounted \in BOOLEAN
    /\ connectionStatus \in {"disconnected", "connected", "tracking", "error"}
    /\ wsRef \in Sockets \cup {Null}
    /\ reconnectTimeoutRef \in TimerIds \cup {Null}
    /\ sockState \in [Sockets -> ReadyStates]
    /\ timers \subseteq TimerIds
    /\ trackingData \in TrackingResults \cup {NoData}
    /\ received \in Texts \cup {NoMessage}
    /\ Cardinality(Live(sockState)) + Cardinality(timers) <= MaxInFlight

\* No socket has an event still to come.
Quiet == Live(sockState) = {}

\* C1: an explicit disconnect skips the auto-reconnect.  After
\* disconnectWebSocket (Disconnect button or unmount), once the close event of
\* the closed socket has been delivered, no reconnect timer is pending, and no
\* timer calls connectWebSocket before the user asks for a connection again.
C1_ExplicitDisconnectSkipsReconnect ==
    explicitDisconnect =>
        /\ Quiet => timers = {}
        /\ lastOp \notin {"reconnect", "reconnect_noop"}

\* C2: at most one reconnect timer is pending at any time, and once a socket
\* has opened no reconnect timer remains pending.
C2_OneReconnectTimer ==
    /\ Cardinality(timers) <= 1
    /\ lastOp = "open" => timers = {}

\* C3: while the backend stays unreachable and the user never disconnects,
\* every close is eventually followed by a new connection attempt and every
\* attempt by a close: attempts never stop.
C3_ReconnectsForever ==
    /\ (lastOp = "close") ~> (lastOp \in {"connect", "reconnect"})
    /\ (lastOp \in {"connect", "reconnect"}) ~> (lastOp = "close")

\* A reconnect timer has fired and created a new socket while the close of
\* an earlier attempt is already behind it.
C3_Witness ==
    /\ lastOp = "reconnect"
    /\ wsRef # Null /\ sockState[wsRef] = "CONNECTING"
    /\ reconnectTimeoutRef # Null

\* C4 as stated: after any transport error event or any close event the
\* ConnectionState is disconnected, the client neither connected nor tracking.
C4_ErrorOrCloseDisconnects ==
    lastOp \in {"error", "close"} =>
        connectionStatus = "disconnected" /\ ~isConnected /\ ~isTracking

\* C4 amended: after any close event the ConnectionState is disconnected and
\* the client is neither connected nor tracking; a transport error event sets
\* the ConnectionState to error (the close event that follows it in the same
\* task then sets disconnected).
C4_CloseDisconnectsErrorMarks ==
    /\ lastOp = "close" =>
           connectionStatus = "disconnected" /\ ~isConnected /\ ~isTracking
    /\ lastOp = "error" => connectionStatus = "error"

\* The connection failed while the client was tracking: the error event has
\* run, the status is error and the flags are still set.
C4_Witness ==
    lastOp = "error" /\ connectionStatus = "error" /\ isConnected /\ isTracking

C6_TrackingCommandsSent ==
    /\ lastOp = "start" =>
           connectionStatus = "tracking" /\ lastSent = "start_tracking"
    /\ lastOp = "stop" =>
           connectionStatus = "connected" /\ lastSent = "stop_tracking"

\* C14: when the component is unmounted, every socket it created that is
\* still connecting or open gets closed, and the component creates no socket
\* after the unmount.
C14_UnmountClosesSockets ==
    /\ lastOp = "unmount" =>
           \A s \in Sockets : sockState[s] \notin {"CONNECTING", "OPEN"}
    /\ ~mounted => lastOp # "reconnect"

\* C17: on a message event only a tracking_result changes local state: it
\* replaces trackingData with the message's data; config, config_update, pong,
\* unknown types and texts that fail to parse leave trackingData as it was;
\* no message changes the connection flags or the ConnectionState, or closes
\* a socket.
C17_OnlyTrackingResultChangesState ==
    [][lastOp' = "message" =>
          /\ trackingData' = IF received'.json /\ received'.type = "tracking_result"
                             THEN received'.data
                             ELSE trackingData
          /\ UNCHANGED <<isConnected, isTracking, connectionStatus, wsRef, sockState>>]_vars

\* A pong has been handled while a tracking result is on display, and the
\* result is still there.
C17_Witness ==
    /\ lastOp = "message"
    /\ received.json /\ received.type = "pong"
    /\ trackingData \in TrackingResults

\* C18: the keep-alive timer runs exactly while the client is connected:
\* while the channel is open the timer is active and every tick sends a ping,
\* a ping is only sent on an open socket, and after a close, an explicit
\* disconnect or an unmount no keep-alive timer is active.
C18_KeepAliveWhileConnected ==
    /\ (mounted /\ NoTask /\ AlreadyOpen) => pingInterval
    /\ lastOp = "ping" => lastSent = "ping" /\ AlreadyOpen
    /\ lastOp \in {"close", "disconnect", "unmount"} => ~pingInterval

\* C22: at any time at most one WebSocket created by the component is
\* connecting or open, over every interleaving of Connect/Start clicks,
\* reconnect-timer firings and socket events; a connection attempt made while
\* another socket is still connecting does not leave two live sockets.
C22_OneLiveSocket ==
    Cardinality({s \in Sockets : sockState[s] \in {"CONNECTING", "OPEN"}}) <= 1

\* C23: the reported connection state describes the current socket:
\* isConnected is true, and the ConnectionState is connected or tracking, only
\* while the socket held in wsRef is open, and an open or close event of a
\* socket that has been superseded or explicitly disconnected (one that wsRef
\* no longer holds) changes none of isConnected, isTracking, ConnectionState.
C23_StateDescribesCurrentSocket ==
    [][/\ (NoTask' /\ (isConnected' \/ connectionStatus' \in {"connected", "tracking"}))
            => (wsRef' # Null /\ sockState'[wsRef'] = "OPEN")
       /\ \A s \in Sockets :
             (lastOp' \in {"open", "close"} /\ sockState'[s] # sockState[s] /\ wsRef # s)
                 => UNCHANGED <<isConnected, isTracking, connectionStatus>>]_vars

\* C25: tracking is never active without a connection: in every state
\* between two handlers isTracking implies isConnected, and the
\* ConnectionState is tracking exactly when isTracking is true.
C25_TrackingNeedsConnection ==
    NoTask => /\ isTracking => isConnected
              /\ connectionStatus = "tracking" <=> isTracking

(***************************************************************************)
(* Properties of the project page.                                         *)
(***************************************************************************)
TypeOKPage ==
    /\ pageIsConnected \in BOOLEAN /\ isCameraActive \in BOOLEAN
    /\ pageIsTracking \in BOOLEAN /\ pageMounted \in BOOLEAN
    /\ Len(consoleLogs) <= MaxLog
    /\ fingertipData.tips \in {"null", "hand"}
    /\ robotState \in RobotStates
    /\ streamRef \in {"null", "live"}
    /\ trackRequests \in 0..MaxRequests

C16_FailedRequestKeepsState ==
    [][pageLastOp' = "track_failed" =>
          /\ fingertipData' = fingertipData
          /\ robotState' = robotState
          /\ trackRequests' < trackRequests]_vars

\* C20: once tracking has been started, by startTracking or by the auto-start
\* timer, a frame is captured and the next cycle is scheduled, and a cycle
\* stays scheduled for as long as the page is tracking; after stopTracking
\* none is scheduled.
C20_LoopKeepsRunning ==
    /\ pageLastOp \in {"start_tracking", "auto_start"} => trackRequests > 0
    /\ (pageMounted /\ pageIsTracking) => rafPending
    /\ ~pageIsTracking => ~rafPending

\* C21: robot-status polling is a bounded resource: over any sequence of
\* Connect clicks, a second click while the first request is pending
\* included, at most one polling interval is active at a time, and no
\* interval is left and no poll fires once the component has unmounted.
C21_OnePollingInterval ==
    /\ polling <= 1
    /\ ~pageMounted => polling = 0 /\ pageLastOp # "poll"

\* C26: tracking is never active while the camera is inactive: in every
\* state isTracking implies isCameraActive, also when stopCamera is called
\* during the one-second delay before the auto-start timer of startCamera
\* fires.
C26_TrackingNeedsCamera ==
    pageIsTracking => isCameraActive

\* The camera was stopped during the delay, and the auto-start timer has
\* fired since without starting the tracking.
C26_Witness ==
    /\ pageLastOp = "auto_start_skipped"
    /\ pageMounted /\ ~isCameraActive /\ streamRef = "null"
    /\ ~pageIsTracking

\* C29: the output console never holds more than 50 entries after any
\* sequence of addToConsole calls; the entries are ordered newest first, and
\* when a 51st message is added the oldest entry is the one dropped: the
\* console holds the last min(n, 50) of the n calls, the latest at the top.
C29_ConsoleKeepsLast50 ==
    /\ Len(consoleLogs) <= 50
    /\ Len(consoleLogs) = IF clock < 50 THEN clock ELSE 50
    /\ \A i \in 1..Len(consoleLogs) : consoleLogs[i].timestamp = clock - i + 1

\* A 51st message has been added: the console holds 50 entries, the calls 2
\* to 51.
C29_Witness ==
    /\ clock = 51 /\ pageLastOp = "log"
    /\ Len(consoleLogs) = 50
    /\ consoleLogs[1].timestamp = 51 /\ consoleLogs[50].timestamp = 2

(***************************************************************************)
(* Properties of the API demo.                                             *)
(***************************************************************************)
TypeOKDemo ==
    /\ demoIsConnected \in BOOLEAN /\ demoIsLoading \in BOOLEAN
    /\ robots \in {{}, ServerRobots, FallbackRobots}
    /\ selectedRobot \in FallbackRobots
    /\ robotData \in {NoRobotData, "trackResult"} \cup TrackingResults
    /\ ws \in DemoSockets \cup {Null}
    /\ demoSockState \in [DemoSockets -> {"free", "CONNECTING", "OPEN", "CLOSING"}]
    /\ apiHealth \in {NoHealth, "healthy"}
    /\ healthPending \in 0..MaxPending /\ robotsPending \in 0..1
    /\ trackPending \in 0..1 /\ configurePending \subseteq FallbackRobots

\* Requests in flight.
InFlight == healthPending + robotsPending + Cardinality(configurePending) + trackPending
\* An operation has just been answered with a failure.
Failed(op) == op.outcome \in {"non2xx", "network_error"}

C24_WsIsTheOpenSocket ==
    /\ Cardinality({s \in DemoSockets : demoSockState[s] \in {"CONNECTING", "OPEN"}}) <= 1
    /\ ws # Null <=> \E s \in DemoSockets : demoSockState[s] = "OPEN"
    /\ ws # Null => demoSockState[ws] = "OPEN"

(***************************************************************************)
(* Properties of the widget's life cycle.                                  *)
(***************************************************************************)
TypeOKLife ==
    /\ widgetIsTracking \in BOOLEAN /\ isLoading \in BOOLEAN
    /\ widgetMounted \in BOOLEAN /\ startFailed \in BOOLEAN
    /\ status \in {Ready, Initializing, Active, StartFailed, Stopped, LoadFailed}
    /\ scripts \in {"loading", "loaded", "failed"}
    /\ camera \in {"none", "starting", "running", "idle"}
    /\ framesDelivered \in 0..MaxFrames /\ framesSent \in 0..MaxFrames

C13_UnmountStopsCamera ==
    /\ widgetLastOp = "unmount" => camera # "running"
    /\ ~widgetMounted => widgetLastOp # "frame"

\* C19: between a successful startTracking and the next stopTracking every
\* frame the camera delivers is sent to the extractor exactly once and its
\* result is applied by onResults to the fingertip state; a frame delivered
\* while not tracking is not sent.
C19_EveryFrameSentOnce ==
    [][widgetLastOp' = "frame" =>
          IF widgetIsTracking
          THEN /\ framesSent' = framesSent + 1
               /\ fingertips' =
                      onResults(TRUE, videoSize,
                                [fingertips |-> fingertips, robotMapping |-> robotMapping],
                                results').fingertips
          ELSE framesSent' = framesSent]_vars

\* C27: stopTracking resets the derived state and it stays reset: whenever
\* the widget is not tracking (after a stopTracking and until the next
\* successful startTracking, frames and results that come in between
\* included) the fingertips are all absent, robotMapping is neutral and fps
\* is 0.
C27_StoppedStateStaysReset ==
    ~widgetIsTracking =>
        /\ fingertips = NoFingertips
        /\ robotMapping = Neutral
        /\ fps = 0

\* Tracking has been stopped after the camera delivered frames, and a new
\* start is under way.
C27_Witness ==
    /\ status = Initializing /\ camera = "starting"
    /\ framesDelivered > 0
    /\ ~widgetIsTracking
    /\ fingertips = NoFingertips /\ robotMapping = Neutral /\ fps = 0

\* C28: every startTracking run ends with isLoading false, whether the
\* initialization and the camera start succeed or fail; isTracking becomes
\* true only when the scripts were loaded and the camera start has completed;
\* no startTracking begins while isLoading is true.
C28_StartEndsLoading ==
    [][/\ widgetLastOp' \in {"start_ok", "start_failed"} => ~isLoading'
       /\ (widgetIsTracking' /\ ~widgetIsTracking) =>
              /\ widgetLastOp' = "start_ok"
              /\ scripts = "loaded"
              /\ camera = "starting" /\ camera' = "running"
       /\ (widgetLastOp' = "start" \/ (widgetLastOp' = "start_failed" /\ camera # "starting"))
              => ~isLoading]_vars

\* A start has succeeded: the widget tracks and no longer loads.
C28_Witness ==
    /\ widgetLastOp = "start_ok"
    /\ widgetIsTracking /\ ~isLoading
    /\ camera = "running" /\ status = Active

(***************************************************************************)
(* The extractor -> mapper -> projector pipeline: onResults applied to     *)
(* every sequence of extractor results, for each video size and for a      *)
(* handler registered with tracking on or off.                             *)
(***************************************************************************)
InitInputs ==
    /\ videoSize \in VideoSizes
    /\ handlerIsTracking \in BOOLEAN
    /\ results = NoHandResult
    /\ fingertips = NoFingertips
    /\ robotMapping = Neutral
    /\ fps = 0 /\ frameCountRef = 0 /\ sinceLastTime = 0

NextPipeline ==
    \/ HandDetected
    \/ NoHandDetected

InitPipeline == InitWS /\ InitInputs /\ InitLife /\ InitPage /\ InitDemo /\ InitNav
SpecPipeline == InitPipeline /\ [][NextPipeline]_vars

(***************************************************************************)
(* Properties of the pipeline.                                             *)
(***************************************************************************)
BothPresent == fingertips.thumb.present /\ fingertips.indexTip.present
\* Squared pixel distance of thumb and indexTip, times One^2.
SquaredDistance ==
    Pow2(fingertips.thumb.x - fingertips.indexTip.x)
        + Pow2(fingertips.thumb.y - fingertips.indexTip.y)
\* onResults has processed a result with a hand.
HandProcessed == handlerIsTracking /\ Len(results.multiHandLandmarks) > 0

\* C7: with thumb and indexTip present, gripper is Closed exactly when the
\* squared pixel distance of thumb and indexTip is below 2500 (distance below
\* 50), else Open: distance 0 gives Closed, distance exactly 50 gives Open.
C7_GripperThreshold ==
    BothPresent =>
        /\ robotMapping.gripper = "Closed"
               <=> SquaredDistance < Pow2(GripperThreshold) * Pow2(One)
        /\ robotMapping.gripper = "Open"
               <=> SquaredDistance >= Pow2(GripperThreshold) * Pow2(One)
        /\ fingertips.thumb.x = fingertips.indexTip.x
               /\ fingertips.thumb.y = fingertips.indexTip.y
               => robotMapping.gripper = "Closed"

\* Thumb and indexTip are exactly 50 pixels apart and the gripper is Open.
C7_Witness ==
    /\ BothPresent
    /\ SquaredDistance = Pow2(GripperThreshold) * Pow2(One)
    /\ robotMapping.gripper = "Open"

C9_LinearMapping ==
    HandProcessed =>
        LET lm == results.multiHandLandmarks[1]
            w == CanvasWidth(videoSize)
            h == CanvasHeight(videoSize)
            At(a, b) == [thumb |-> fingertips.thumb, indexPip |-> fingertips.indexPip,
                         indexTip |-> [present |-> TRUE, x |-> a * w, y |-> b * h, z |-> 0]]
            XOf(a) == updateRobotMapping(Neutral, At(a, 0), w, h).x
            YOf(b) == updateRobotMapping(Neutral, At(0, b), w, h).y
        IN  /\ fingertips.thumb = [present |-> TRUE, x |-> lm[4].x * w, y |-> lm[4].y * h, z |-> lm[4].z]
            /\ fingertips.indexPip = [present |-> TRUE, x |-> lm[6].x * w, y |-> lm[6].y * h, z |-> lm[6].z]
            /\ fingertips.indexTip = [present |-> TRUE, x |-> lm[8].x * w, y |-> lm[8].y * h, z |-> lm[8].z]
            /\ robotMapping.x = 2 * (fingertips.indexTip.x \div w) - One
            /\ robotMapping.y = One - 2 * (fingertips.indexTip.y \div h)
            /\ \A a \in 0..One : \A b \in 0..One :
                   a < b => XOf(a) < XOf(b) /\ YOf(a) > YOf(b)
            /\ ( /\ One % 20 = 0
                 /\ w = 640 /\ h = 480
                 /\ lm[8].x * 20 = 11 * One /\ lm[8].y * 5 = One
                 /\ lm[4].x = Half /\ lm[4].y = Half )
               => /\ fingertips.indexTip.x = 352 * One
                  /\ fingertips.indexTip.y = 96 * One
                  /\ robotMapping.x * 10 = One
                  /\ robotMapping.y * 10 = 6 * One
                  /\ robotMapping.gripper = "Open"

\* The spec's scenario has been processed: indexTip (0.55, 0.2), thumb
\* (0.5, 0.5) on the default 640x480 canvas.
C9_Witness ==
    /\ HandProcessed
    /\ CanvasWidth(videoSize) = 640 /\ CanvasHeight(videoSize) = 480
    /\ results.multiHandLandmarks[1][8].x * 20 = 11 * One
    /\ results.multiHandLandmarks[1][8].y * 5 = One
    /\ results.multiHandLandmarks[1][4].x = Half
    /\ results.multiHandLandmarks[1][4].y = Half
    /\ fingertips.indexTip.x = 352 * One
    /\ robotMapping.gripper = "Open"

TypeOKNav ==
    /\ dark \in BOOLEAN /\ rootDark \in BOOLEAN /\ hasSections \in BOOLEAN
    /\ scrollY \in 0..MaxScroll
    /\ active \in {NavIds[k] : k \in 1..Len(NavIds)}

\* C30: the dark state always equals whether the document root carries the
\* dark class, from page load through any number of toggleDark calls; each
\* call flips both together, and two consecutive toggles restore the
\* original appearance.
C30_DarkMatchesRoot ==
    /\ dark = rootDark
    /\ \A k \in 2..Len(rootHistory) : rootHistory[k] # rootHistory[k - 1]
    /\ \A k \in 3..Len(rootHistory) : rootHistory[k] = rootHistory[k - 2]

====
